---- MODULE Spec2Model ----
(***************************************************************************)
(* Model of the gecos crate (src/src/lib.rs): the validated string type    *)
(* GecosSanitizedString and the Gecos record with its two conversions,     *)
(* to_gecos_string and from_gecos_string.                                  *)
(*                                                                         *)
(* A String is a sequence of one-character strings.  An Option<T> is a     *)
(* sequence of length 0 (None) or 1 (Some).  A Result<T, GecosError> is a  *)
(* record [ok, val, err]: val holds the Ok value, err the character of     *)
(* GecosError::IllegalPasswdChar; both empty means "not computed yet".     *)
(***************************************************************************)
EXTENDS Integers, Sequences, FiniteSets

VARIABLES
    op,      \* the operation performed last
    value,   \* Option<String>: argument of GecosSanitizedString::new
    field,   \* Result<GecosSanitizedString, GecosError> of that call
    text,    \* Option<String>: field.to_string()
    input,   \* Option<&str>: argument of Gecos::from_gecos_string
    gecos,   \* Result<Gecos, GecosError>: the record at hand
    flat,    \* Option<String>: gecos.to_gecos_string()
    back,    \* Result<Gecos, GecosError>: from_gecos_string(flat)
    again    \* Option<String>: back.to_gecos_string()

vars == <<op, value, field, text, input, gecos, flat, back, again>>

----------------------------------------------------------------------------
(* Bounds of the explored inputs.                                          *)

\* longest text over the full alphabet
MaxLen == 5
\* longest flat string over the reduced alphabet LongChars
MaxLongLen == 7
\* longest text of a field placed in a directly constructed record
MaxFieldLen == 1
\* longest `other` vector of a directly constructed record
MaxOther == 2
\* longest `other` vector a session grows by pushing
MaxPush == 1

----------------------------------------------------------------------------
(* Option and Result.                                                      *)

None == <<>>
Some(x) == <<x>>
Unwrap(o) == o[1]
UnwrapOr(o, d) == IF o = None THEN d ELSE o[1]

Ok(v) == [ok |-> TRUE, val |-> <<v>>, err |-> <<>>]
Err(c) == [ok |-> FALSE, val |-> <<>>, err |-> <<c>>]
Pending == [ok |-> FALSE, val |-> <<>>, err |-> <<>>]
IsErr(r) == r.err # <<>>

----------------------------------------------------------------------------
(* GecosSanitizedString.                                                   *)

INVALID_CHARS == <<",", ":", "=", "\\", "\"", "\n">>

\* str::contains(char)
Contains(s, c) == \E i \in DOMAIN s : s[i] = c

Min(S) == CHOOSE m \in S : \A n \in S : m <= n

\* new() that reports the offending character found first in the text
NewLeftmost(s) ==
    LET bad == {i \in DOMAIN s : \E k \in DOMAIN INVALID_CHARS : s[i] = INVALID_CHARS[k]}
    IN  IF bad = {} THEN Ok([str |-> s]) ELSE Err(s[Min(bad)])

\* new() whose list of invalid characters lacks '='
NewNoEquals(s) ==
    LET hit == {k \in DOMAIN INVALID_CHARS : INVALID_CHARS[k] # "=" /\ Contains(s, INVALID_CHARS[k])}
    IN  IF hit = {} THEN Ok([str |-> s]) ELSE Err(INVALID_CHARS[Min(hit)])

\* GecosSanitizedString::new: the loop runs over INVALID_CHARS in array
\* order and returns at the first character the value contains.
New(s) ==
    LET hit == {k \in DOMAIN INVALID_CHARS : Contains(s, INVALID_CHARS[k])}
    IN  IF hit = {} THEN Ok([str |-> s]) ELSE Err(INVALID_CHARS[Min(hit)])

\* Display that trims a trailing blank
ToStringTrim(g) ==
    IF Len(g.str) > 0 /\ g.str[Len(g.str)] = " "
    THEN SubSeq(g.str, 1, Len(g.str) - 1) ELSE g.str

\* impl Display for GecosSanitizedString (and From<&GecosSanitizedString>)
ToString(g) == g.str

----------------------------------------------------------------------------
(* Gecos::to_gecos_string.                                                 *)

\* macro gecos_element_to_string!: the slot, or a sanitized "" when None,
\* rendered by Display inside format!
GecosElementToString(sts) == ToString(UnwrapOr(sts, Unwrap(New(<<>>).val)))

RECURSIVE JoinTrailing(_, _)
\* join that writes the separator after every element
JoinTrailing(v, sep) ==
    IF v = <<>> THEN <<>> ELSE v[1] \o sep \o JoinTrailing(Tail(v), sep)

RECURSIVE Join(_, _)
\* [String]::join: the separator goes between elements only
Join(v, sep) ==
    IF v = <<>> THEN <<>>
    ELSE IF Len(v) = 1 THEN v[1]
    ELSE v[1] \o sep \o Join(Tail(v), sep)

\* self.other.iter().map(|val| val.into()).cloned().collect::<Vec<String>>()
OtherStrings(other) == [i \in DOMAIN other |-> other[i].str]

\* format!("{},{},{},{},{}", ...)
ToGecosString(g) ==
    GecosElementToString(g.full_name) \o <<",">> \o
    GecosElementToString(g.room) \o <<",">> \o
    GecosElementToString(g.work_phone) \o <<",">> \o
    GecosElementToString(g.home_phone) \o <<",">> \o
    Join(OtherStrings(g.other), <<",">>)

----------------------------------------------------------------------------
(* Gecos::from_gecos_string.                                               *)

RECURSIVE SplitDropLast(_, _)
\* split that drops an empty segment after the last separator
SplitDropLast(s, c) ==
    IF ~Contains(s, c) THEN (IF s = <<>> THEN <<>> ELSE <<s>>)
    ELSE LET p == Min({i \in DOMAIN s : s[i] = c})
         IN  <<SubSeq(s, 1, p - 1)>> \o SplitDropLast(SubSeq(s, p + 1, Len(s)), c)

RECURSIVE Split(_, _)
\* str::split(char): the text before each separator, then the remainder
\* (also when the remainder is empty)
Split(s, c) ==
    IF ~Contains(s, c) THEN <<s>>
    ELSE LET p == Min({i \in DOMAIN s : s[i] = c})
         IN  <<SubSeq(s, 1, p - 1)>> \o Split(SubSeq(s, p + 1, Len(s)), c)

\* input.split(',').map(|val| val.to_string().try_into()): the iterator is
\* lazy, element i is validated when next() reaches it
Splitted(s) == LET segs == Split(s, ",") IN [i \in DOMAIN segs |-> New(segs[i])]

\* splitted.next() for the i-th call
NextOf(it, i) == IF i <= Len(it) THEN Some(it[i]) ELSE None

\* the macro that keeps an empty segment as Some("")
ElementKeepEmpty(sts) ==
    IF sts = None THEN [ret |-> FALSE, err |-> <<>>, slot |-> None]
    ELSE IF Unwrap(sts).ok
         THEN [ret |-> FALSE, err |-> <<>>, slot |-> Some(Unwrap(Unwrap(sts).val))]
         ELSE [ret |-> TRUE, err |-> Unwrap(sts).err, slot |-> None]

\* macro gecos_string_element_to_gecos_object_element!: ret is the early
\* `return Err(err)`, slot the Option the expression evaluates to
Element(sts) ==
    IF sts = None THEN [ret |-> FALSE, err |-> <<>>, slot |-> None]
    ELSE IF Unwrap(sts).ok
         THEN [ret |-> FALSE, err |-> <<>>,
               slot |-> IF ToString(Unwrap(Unwrap(sts).val)) = <<>>
                        THEN None ELSE Some(Unwrap(Unwrap(sts).val))]
         ELSE [ret |-> TRUE, err |-> Unwrap(sts).err, slot |-> None]

RECURSIVE CollectLast(_)
\* collect that keeps going and reports the last error
CollectLast(rs) ==
    IF rs = <<>> THEN Ok(<<>>)
    ELSE LET rest == CollectLast(Tail(rs))
         IN  IF ~rest.ok THEN rest
             ELSE IF ~rs[1].ok THEN Err(Unwrap(rs[1].err))
             ELSE Ok(<<Unwrap(rs[1].val)>> \o Unwrap(rest.val))

RECURSIVE Collect(_)
\* collect::<Result<Vec<_>, _>>(): stops at the first Err
Collect(rs) ==
    IF rs = <<>> THEN Ok(<<>>)
    ELSE IF ~rs[1].ok THEN Err(Unwrap(rs[1].err))
    ELSE LET rest == Collect(Tail(rs))
         IN  IF ~rest.ok THEN rest
             ELSE Ok(<<Unwrap(rs[1].val)>> \o Unwrap(rest.val))

\* the struct expression evaluates its fields in order; each macro may
\* return early, and `?` on the collected tail returns last
FromGecosString(s) ==
    LET it == Splitted(s)
        e1 == Element(NextOf(it, 1))
        e2 == Element(NextOf(it, 2))
        e3 == Element(NextOf(it, 3))
        e4 == Element(NextOf(it, 4))
        rest == Collect(SubSeq(it, 5, Len(it)))
    IN  IF e1.ret THEN Err(Unwrap(e1.err))
        ELSE IF e2.ret THEN Err(Unwrap(e2.err))
        ELSE IF e3.ret THEN Err(Unwrap(e3.err))
        ELSE IF e4.ret THEN Err(Unwrap(e4.err))
        ELSE IF ~rest.ok THEN rest
        ELSE Ok([full_name |-> e1.slot, room |-> e2.slot,
                 work_phone |-> e3.slot, home_phone |-> e4.slot,
                 other |-> Unwrap(rest.val)])

----------------------------------------------------------------------------
(* Inputs.                                                                 *)

\* one letter, the blank and the six invalid characters
Chars == {"a", " ", ",", ":", "=", "\\", "\"", "\n"}
\* the alphabet of the longer flat strings
LongChars == {"a", ",", ":", "="}
\* the alphabet of the raw texts offered for the fields of a record
FieldChars == {"a", ":"}

StringsOver(A, n) == UNION {[1..k -> A] : k \in 0..n}

Texts == StringsOver(Chars, MaxLen)
FlatInputs == Texts \cup StringsOver(LongChars, MaxLongLen)

\* the fields a caller can obtain: only new() (or try_into) makes one
ValidFields ==
    {Unwrap(New(s).val) : s \in {t \in StringsOver(FieldChars, MaxFieldLen) : New(t).ok}}
Slots == {None} \cup {Some(f) : f \in ValidFields}

\* Gecos { full_name, room, work_phone, home_phone, other } struct literals
Records ==
    [full_name : Slots, room : Slots, work_phone : Slots, home_phone : Slots,
     other : StringsOver(ValidFields, MaxOther)]

\* Gecos { full_name: None, room: None, work_phone: None, home_phone: None, other: vec![] }
EmptyGecos ==
    [full_name |-> None, room |-> None, work_phone |-> None, home_phone |-> None,
     other |-> <<>>]

FixedSlots == {"full_name", "room", "work_phone", "home_phone"}

----------------------------------------------------------------------------
(* SpecNew: GecosSanitizedString::new and to_string on every text.         *)

InitNew ==
    /\ op = "init"
    /\ value \in {Some(s) : s \in Texts}
    /\ field = Pending
    /\ text = None
    /\ input = None
    /\ gecos = Pending
    /\ flat = None
    /\ back = Pending
    /\ again = None

CallNew ==
    /\ value # None
    /\ field = Pending
    /\ field' = New(Unwrap(value))
    /\ op' = "new"
    /\ UNCHANGED <<value, text, input, gecos, flat, back, again>>

CallToString ==
    /\ value # None
    /\ field.ok
    /\ text = None
    /\ text' = Some(ToString(Unwrap(field.val)))
    /\ op' = "to_string"
    /\ UNCHANGED <<value, field, input, gecos, flat, back, again>>

NextNew == CallNew \/ CallToString

SpecNew == InitNew /\ [][NextNew]_vars

----------------------------------------------------------------------------
(* SpecParse: from_gecos_string on every flat string, then the record is   *)
(* serialized, parsed and serialized again.                                *)
(* SpecRecord: to_gecos_string on every directly constructed record, then  *)
(* the result is parsed and serialized again.                              *)

InitParse ==
    /\ op = "init"
    /\ value = None
    /\ field = Pending
    /\ text = None
    /\ input \in {Some(s) : s \in FlatInputs}
    /\ gecos = Pending
    /\ flat = None
    /\ back = Pending
    /\ again = None

InitRecord ==
    /\ op = "init"
    /\ value = None
    /\ field = Pending
    /\ text = None
    /\ input = None
    /\ gecos \in {Ok(r) : r \in Records}
    /\ flat = None
    /\ back = Pending
    /\ again = None

Parse ==
    /\ input # None
    /\ gecos = Pending
    /\ gecos' = FromGecosString(Unwrap(input))
    /\ op' = "from_gecos_string"
    /\ UNCHANGED <<value, field, text, input, flat, back, again>>

Serialize ==
    /\ gecos.ok
    /\ flat = None
    /\ flat' = Some(ToGecosString(Unwrap(gecos.val)))
    /\ op' = "to_gecos_string"
    /\ UNCHANGED <<value, field, text, input, gecos, back, again>>

Reparse ==
    /\ flat # None
    /\ back = Pending
    /\ back' = FromGecosString(Unwrap(flat))
    /\ op' = "from_gecos_string"
    /\ UNCHANGED <<value, field, text, input, gecos, flat, again>>

Reserialize ==
    /\ back.ok
    /\ again = None
    /\ again' = Some(ToGecosString(Unwrap(back.val)))
    /\ op' = "to_gecos_string"
    /\ UNCHANGED <<value, field, text, input, gecos, flat, back>>

NextParse == Parse \/ Serialize \/ Reparse \/ Reserialize

SpecParse == InitParse /\ [][NextParse]_vars

NextRecord == Serialize \/ Reparse \/ Reserialize

SpecRecord == InitRecord /\ [][NextRecord]_vars

----------------------------------------------------------------------------
(* Vocabulary of the properties: the invalid characters as a set, and the  *)
(* comma-separated segments of a text found by the positions of its commas.*)

Forbidden == {",", ":", "=", "\\", "\"", "\n"}
HasForbidden(s) == \E i \in DOMAIN s : s[i] \in Forbidden
Leftmost(s) == s[Min({i \in DOMAIN s : s[i] \in Forbidden})]

CommaPos(s) == {i \in DOMAIN s : s[i] = ","}
NumCommas(s) == Cardinality(CommaPos(s))
NumSegments(s) == NumCommas(s) + 1
KthComma(s, k) ==
    IF k = 0 THEN 0
    ELSE IF k > NumCommas(s) THEN Len(s) + 1
    ELSE CHOOSE p \in CommaPos(s) : Cardinality({q \in CommaPos(s) : q < p}) = k - 1
Segment(s, k) == SubSeq(s, KthComma(s, k - 1) + 1, KthComma(s, k) - 1)
SegInvalid(seg) == \E i \in DOMAIN seg : seg[i] \in Forbidden \ {","}
Commas(n) == [i \in 1..n |-> ","]
Max(a, b) == IF a >= b THEN a ELSE b

FixedSlot(g, i) == <<g.full_name, g.room, g.work_phone, g.home_phone>>[i]
SlotText(o) == IF o = None THEN <<>> ELSE o[1].str
PresentButEmpty(o) == o # None /\ o[1].str = <<>>

----------------------------------------------------------------------------
(* Properties of GecosSanitizedString::new (SpecNew).                      *)

\* C2 as stated: when the text holds an invalid character, new() fails and
\* the error carries the leftmost invalid character of the text.
C2_LeftmostReported ==
    (value # None /\ field # Pending /\ HasForbidden(Unwrap(value)))
        => (IsErr(field) /\ field.err = <<Leftmost(Unwrap(value))>>)

\* C2 amended: when the text holds an invalid character, new() fails and the
\* error carries the first character of the list , : = \ " newline that
\* occurs anywhere in the text.
C2_FirstInListReported ==
    (value # None /\ field # Pending /\ HasForbidden(Unwrap(value)))
        => /\ IsErr(field)
           /\ ~field.ok
           /\ field.val = <<>>
           /\ \E k \in DOMAIN INVALID_CHARS :
                /\ field.err = <<INVALID_CHARS[k]>>
                /\ Contains(Unwrap(value), INVALID_CHARS[k])
                /\ \A j \in 1..(k - 1) : ~Contains(Unwrap(value), INVALID_CHARS[j])

\* new("a=:") has failed with ':' although '=' stands further left
C2_Witness ==
    /\ value = Some(<<"a", "=", ":">>)
    /\ field = Err(":")

\* C5: new(s) succeeds exactly when s holds no invalid character, and then
\* to_string gives back s unchanged.
C5_NewIdentity ==
    (value # None /\ field # Pending)
        => /\ field.ok <=> ~HasForbidden(Unwrap(value))
           /\ field.ok => field.val = <<[str |-> Unwrap(value)]>>
           /\ text # None => Unwrap(text) = Unwrap(value)

\* " a " was accepted and rendered with both blanks
C5_Witness ==
    /\ value = Some(<<" ", "a", " ">>)
    /\ field.ok
    /\ text = Some(<<" ", "a", " ">>)

----------------------------------------------------------------------------
(* Properties of Gecos::from_gecos_string (SpecParse).                     *)

\* C3 as stated: a flat string with exactly four commas and nothing after
\* the fourth parses to a record whose `other` is empty; full_name is the
\* first segment and empty fixed segments are absent.
C3_FourCommasEmptyOther ==
    (input # None /\ gecos.ok /\ NumCommas(Unwrap(input)) = 4
       /\ Segment(Unwrap(input), 5) = <<>>)
        => /\ Unwrap(gecos.val).other = <<>>
           /\ SlotText(Unwrap(gecos.val).full_name) = Segment(Unwrap(input), 1)
           /\ \A i \in 1..4 : Segment(Unwrap(input), i) = <<>>
                                => FixedSlot(Unwrap(gecos.val), i) = None

\* C6: after a successful parse, fixed slot i is Some(segment i) exactly when
\* the input has an i-th segment and it is not empty, else None; with fewer
\* than five segments `other` is empty.
C6_FixedSlots ==
    (input # None /\ gecos.ok)
        => /\ \A i \in 1..4 :
                FixedSlot(Unwrap(gecos.val), i) =
                    IF i <= NumSegments(Unwrap(input)) /\ Segment(Unwrap(input), i) # <<>>
                    THEN Some([str |-> Segment(Unwrap(input), i)])
                    ELSE None
           /\ \A i \in 1..4 : ~PresentButEmpty(FixedSlot(Unwrap(gecos.val), i))
           /\ NumSegments(Unwrap(input)) < 5 => Unwrap(gecos.val).other = <<>>

\* "a,,a" was parsed: an empty segment, a filled one and a missing one
C6_Witness ==
    /\ input = Some(<<"a", ",", ",", "a">>)
    /\ gecos.ok
    /\ Unwrap(gecos.val).room = None
    /\ Unwrap(gecos.val).work_phone = Some([str |-> <<"a">>])
    /\ Unwrap(gecos.val).home_phone = None

\* C7: after a successful parse, `other` is the segments from the fifth on,
\* in order, empty ones kept; its length is max(0, segments - 4).
C7_OtherIsTail ==
    (input # None /\ gecos.ok)
        => /\ Len(Unwrap(gecos.val).other) = Max(0, NumSegments(Unwrap(input)) - 4)
           /\ \A k \in DOMAIN Unwrap(gecos.val).other :
                Unwrap(gecos.val).other[k] = [str |-> Segment(Unwrap(input), k + 4)]

\* ",,,,a,," was parsed: the trailing commas gave two empty elements
C7_Witness ==
    /\ input = Some(<<",", ",", ",", ",", "a", ",", ",">>)
    /\ gecos.ok
    /\ Unwrap(gecos.val).other = <<[str |-> <<"a">>], [str |-> <<>>], [str |-> <<>>]>>

\* C8: a parse fails exactly when some segment holds one of : = \ " newline;
\* it then returns no record, only the error new() gives for the first such
\* segment in positional order.
C8_ParseFails ==
    (input # None /\ gecos # Pending)
        => LET s == Unwrap(input)
               bad == {k \in 1..NumSegments(s) : SegInvalid(Segment(s, k))}
           IN  /\ IsErr(gecos) <=> bad # {}
               /\ gecos.ok <=> bad = {}
               /\ IsErr(gecos) =>
                    /\ gecos.val = <<>>
                    /\ gecos.err = New(Segment(s, Min(bad))).err

\* ",,,,=,:" failed with '=', the character of the earlier tail segment
C8_Witness ==
    /\ input = Some(<<",", ",", ",", ",", "=", ",", ":">>)
    /\ gecos = Err("=")

\* C10: for a string that parses, serializing the record gives the string
\* followed by max(0, 4 - commas) commas, and parsing and serializing that
\* once more changes nothing.
C10_StringRoundTrip ==
    (input # None /\ flat # None)
        => /\ Unwrap(flat) =
                Unwrap(input) \o Commas(Max(0, 4 - NumCommas(Unwrap(input))))
           /\ NumCommas(Unwrap(input)) >= 4 => Unwrap(flat) = Unwrap(input)
           /\ back # Pending => back.ok
           /\ again # None => again = flat

\* "a,a" came back as "a,a,,," and stayed so on the second pass
C10_Witness ==
    /\ input = Some(<<"a", ",", "a">>)
    /\ flat = Some(<<"a", ",", "a", ",", ",", ",">>)
    /\ again = flat

----------------------------------------------------------------------------
(* Properties of Gecos::to_gecos_string (SpecRecord).                      *)

\* C1 as stated: a record without a present-but-empty fixed slot, whatever
\* its `other`, is parsed back from its serialized form as an equal record.
C1_RecordRoundTrip ==
    (input = None /\ gecos.ok /\ back # Pending
       /\ \A i \in 1..4 : ~PresentButEmpty(FixedSlot(Unwrap(gecos.val), i)))
        => back = gecos

\* C4: the serialized form is the four fixed texts (empty when absent) and
\* the elements of `other`, all separated by commas; it has
\* 4 + max(0, len(other) - 1) commas, and the empty record gives ",,,,".
C4_Serialized ==
    (input = None /\ gecos.ok /\ flat # None)
        => LET g == Unwrap(gecos.val)
               f == Unwrap(flat)
           IN  /\ NumCommas(f) = 4 + Max(0, Len(g.other) - 1)
               /\ \A i \in 1..4 : Segment(f, i) = SlotText(FixedSlot(g, i))
               /\ \A k \in DOMAIN g.other : Segment(f, 4 + k) = g.other[k].str
               /\ g.other = <<>> => Segment(f, 5) = <<>>
               /\ g = EmptyGecos => f = <<",", ",", ",", ",">>

\* a record with an absent slot, an empty one and two `other` elements
C4_Witness ==
    /\ input = None
    /\ gecos = Ok([full_name |-> Some([str |-> <<"a">>]), room |-> None,
                   work_phone |-> Some([str |-> <<>>]), home_phone |-> None,
                   other |-> <<[str |-> <<"a">>], [str |-> <<"a">>]>>])
    /\ flat = Some(<<"a", ",", ",", ",", ",", "a", ",", "a">>)

----------------------------------------------------------------------------
(* Spec: a caller's session.  In any order it validates texts, builds a    *)
(* record from the fields it holds (the struct's fields are public),       *)
(* parses flat strings, and serializes the record at hand.  The arguments  *)
(* of the calls are not kept: value and input stay None.                   *)

\* the texts the session offers to new()
SessValues == {<<"a">>, <<"=">>, <<"a", ",">>}

\* the flat strings the session offers to from_gecos_string
SessInputs ==
    { <<"a">>,
      <<"a", ",", ",", ",", ",">>,
      <<"a", ",", ",", ",", "a", ",", "a">>,
      <<",", "=", ",", ",", ",", "a">>,
      <<",", ",", ",", ",", "a", ",">> }

Init ==
    /\ op = "init"
    /\ value = None
    /\ field = Pending
    /\ text = None
    /\ input = None
    /\ gecos = Pending
    /\ flat = None
    /\ back = Pending
    /\ again = None

\* GecosSanitizedString::new(s) / s.try_into()
SessNew(s) ==
    /\ field' = New(s)
    /\ op' = "new"
    /\ UNCHANGED <<value, text, input, gecos, flat, back, again>>

\* the struct literal with every slot None and other: vec![]
SessConstruct ==
    /\ gecos' = Ok(EmptyGecos)
    /\ op' = "construct"
    /\ UNCHANGED <<value, field, text, input, flat, back, again>>

\* gecos.<slot> = Some(field.clone())
SessSet(slot) ==
    /\ field.ok
    /\ gecos.ok
    /\ gecos' = Ok([Unwrap(gecos.val) EXCEPT ![slot] = Some(Unwrap(field.val))])
    /\ op' = "set"
    /\ UNCHANGED <<value, field, text, input, flat, back, again>>

\* gecos.other.push(field.clone())
SessPush ==
    /\ field.ok
    /\ gecos.ok
    /\ Len(Unwrap(gecos.val).other) < MaxPush
    /\ gecos' = Ok([Unwrap(gecos.val) EXCEPT !.other = Append(@, Unwrap(field.val))])
    /\ op' = "push"
    /\ UNCHANGED <<value, field, text, input, flat, back, again>>

\* gecos = Gecos::from_gecos_string(s)
SessParse(s) ==
    /\ gecos' = FromGecosString(s)
    /\ op' = "from_gecos_string"
    /\ UNCHANGED <<value, field, text, input, flat, back, again>>

\* flat = gecos.to_gecos_string()
SessSerialize ==
    /\ gecos.ok
    /\ flat' = Some(ToGecosString(Unwrap(gecos.val)))
    /\ op' = "to_gecos_string"
    /\ UNCHANGED <<value, field, text, input, gecos, back, again>>

Next ==
    \/ \E s \in SessValues : SessNew(s)
    \/ SessConstruct
    \/ \E slot \in FixedSlots : SessSet(slot)
    \/ SessPush
    \/ \E s \in SessInputs \cup {flat[i] : i \in DOMAIN flat} : SessParse(s)
    \/ SessSerialize

Spec == Init /\ [][Next]_vars

\* every GecosSanitizedString that exists in a state
FieldsOf(r) ==
    IF ~r.ok THEN {}
    ELSE LET g == Unwrap(r.val)
         IN  {FixedSlot(g, i)[1] : i \in {j \in 1..4 : FixedSlot(g, j) # None}}
                \cup {g.other[k] : k \in DOMAIN g.other}
Standalone(r) == IF r.ok THEN {Unwrap(r.val)} ELSE {}
AllFields == Standalone(field) \cup FieldsOf(gecos)

Sanitized(f) == ~HasForbidden(f.str)

\* what a step may do to the fields: the reading operations leave every
\* field as it is, new() leaves the record alone, and a slot assignment or
\* push stores the standalone field unchanged beside the fields it keeps
FieldsUntouched ==
    /\ op' = "to_gecos_string" => (gecos' = gecos /\ field' = field)
    /\ op' = "new" => gecos' = gecos
    /\ op' \in {"from_gecos_string", "construct"} => field' = field
    /\ op' \in {"set", "push"} =>
          /\ field' = field
          /\ FieldsOf(gecos') \subseteq FieldsOf(gecos) \cup Standalone(field)

\* C9: in every state of a session every field, standalone or in the record,
\* is free of the six invalid characters, and no step changes the text of a
\* field that exists.
C9_FieldsSanitized == [](\A f \in AllFields : Sanitized(f)) /\ [][FieldsUntouched]_vars

\* a parsed record was extended with a validated field and serialized
C9_Witness ==
    /\ op = "to_gecos_string"
    /\ field.ok
    /\ gecos.ok
    /\ Unwrap(gecos.val).room = Some([str |-> <<"a">>])
    /\ Len(Unwrap(gecos.val).other) = 2
    /\ flat # None

====
